---- MODULE Spec2Model ----
(***************************************************************************)
(* A model of config-comparator (src/main.py): the YAML flatteners         *)
(* yaml_keys_from_text and yaml_items_from_text, the value formatter       *)
(* fmt_value, and the window's compare and clear handlers.                 *)
(*                                                                         *)
(* Python strings are sequences of one-character strings, ordered by code  *)
(* point as Python orders them.  A parsed YAML value is a record           *)
(*   [t, n, s, nan, kids]                                                  *)
(* where t is the Python type name, n the numeric value (bool, int, float),*)
(* s the characters (str), nan whether a float is NaN, and kids the        *)
(* entries of a dict (in insertion order) or the items of a list, each     *)
(* [k |-> key, v |-> value]; a list's k is its index.                      *)
(***************************************************************************)
EXTENDS Integers, Sequences, FiniteSets, TLC

VARIABLES
    left_text,        \* self.left_text: the text pasted as config A
    right_text,       \* self.right_text: the text pasted as config B
    values_checkbox,  \* self.values_checkbox.isChecked()
    left_list,        \* self.left_list: the rendered items of A
    right_list,       \* self.right_list: the rendered items of B
    status,           \* the status bar's message
    dialog,           \* the message box the last operation showed
    trace,            \* the last operation, its locals and its safe_load calls
    yaml_installed,   \* whether `import yaml` succeeded (line 24-27)
    fmt               \* the last fmt_value call: its arguments and its result

vars == <<left_text, right_text, values_checkbox, left_list, right_list,
          status, dialog, trace, yaml_installed, fmt>>

-----------------------------------------------------------------------------
(* Bounds of the model *)

\* the longest list of a document (indices 0 .. MaxSeqLen-1)
MaxSeqLen == 11
\* the integers of a document are 1 .. MaxInt
MaxInt == 1
\* the whitespace characters of a blank text
MaxPad == 1
\* fmt_value is called with max_len in -1 .. MaxFmtLen
MaxFmtLen == 6

-----------------------------------------------------------------------------
(* Python strings *)

Ellipsis == "ELLIPSIS"   \* the one character U+2026

Ord ==
    ("\n" :> 10) @@ (" " :> 32) @@ ("'" :> 39) @@ ("(" :> 40) @@ (")" :> 41) @@
    ("," :> 44) @@ ("-" :> 45) @@ ("." :> 46) @@
    ("0" :> 48) @@ ("1" :> 49) @@ ("2" :> 50) @@ ("3" :> 51) @@ ("4" :> 52) @@
    ("5" :> 53) @@ ("6" :> 54) @@ ("7" :> 55) @@ ("8" :> 56) @@ ("9" :> 57) @@
    (":" :> 58) @@ ("<" :> 60) @@ ("=" :> 61) @@ (">" :> 62) @@
    ("A" :> 65) @@ ("B" :> 66) @@ ("F" :> 70) @@ ("N" :> 78) @@ ("T" :> 84) @@
    ("[" :> 91) @@ ("]" :> 93) @@
    ("a" :> 97) @@ ("b" :> 98) @@ ("c" :> 99) @@ ("d" :> 100) @@ ("e" :> 101) @@
    ("g" :> 103) @@ ("i" :> 105) @@ ("l" :> 108) @@ ("m" :> 109) @@
    ("n" :> 110) @@ ("o" :> 111) @@ ("r" :> 114) @@ ("s" :> 115) @@
    ("t" :> 116) @@ ("u" :> 117) @@ ("{" :> 123) @@ ("}" :> 125) @@
    (Ellipsis :> 8230)

\* s < t for two Python strings: the first differing character decides, and a
\* proper prefix is smaller
StrLess(s, t) ==
    \E i \in 1..Len(t) :
        /\ i <= Len(s) + 1
        /\ \A j \in 1..(i - 1) : s[j] = t[j]
        /\ \/ i = Len(s) + 1
           \/ Ord[s[i]] < Ord[t[i]]

\* s before t when shorter, and by code point among equals in length
ShortLexLess(s, t) == Len(s) < Len(t) \/ (Len(s) = Len(t) /\ StrLess(s, t))

RECURSIVE sorted_shortlex(_)
sorted_shortlex(S) ==
    IF S = {} THEN <<>>
    ELSE LET m == CHOOSE x \in S : \A y \in S \ {x} : ShortLexLess(x, y)
         IN  <<m>> \o sorted_shortlex(S \ {m})

RECURSIVE sorted(_)
\* sorted(S) of a set of strings: the list of its elements in ascending order
sorted(S) ==
    IF S = {} THEN <<>>
    ELSE LET m == CHOOSE x \in S : \A y \in S \ {x} : StrLess(x, y)
         IN  <<m>> \o sorted(S \ {m})

DigitChars == <<"0", "1", "2", "3", "4", "5", "6", "7", "8", "9">>

RECURSIVE IntStr(_)
\* str(n) of an int: its decimal digits
IntStr(n) ==
    IF n < 0 THEN <<"-">> \o IntStr(0 - n)
    ELSE IF n < 10 THEN <<DigitChars[n + 1]>>
    ELSE IntStr(n \div 10) \o <<DigitChars[(n % 10) + 1]>>

-----------------------------------------------------------------------------
(* Parsed YAML values: what yaml.safe_load returns *)

PyValue(t, n, s, nan, kids) == [t |-> t, n |-> n, s |-> s, nan |-> nan, kids |-> kids]

PyNone     == PyValue("NoneType", 0, <<>>, FALSE, <<>>)
PyBool(b)  == PyValue("bool", IF b THEN 1 ELSE 0, <<>>, FALSE, <<>>)
PyInt(n)   == PyValue("int", n, <<>>, FALSE, <<>>)
PyFloat(n) == PyValue("float", n, <<>>, FALSE, <<>>)   \* the float n.0
PyNaN      == PyValue("float", 0, <<>>, TRUE, <<>>)    \* float('nan'), YAML .nan
PyStr(s)   == PyValue("str", 0, s, FALSE, <<>>)
\* a dict of the entries kv = << <<key, value>>, ... >>, in insertion order
PyDict(kv) == PyValue("dict", 0, <<>>, FALSE,
                      [i \in 1..Len(kv) |-> [k |-> kv[i][1], v |-> kv[i][2]]])
\* a list of the items xs; enumerate() numbers them from 0
PyList(xs) == PyValue("list", 0, <<>>, FALSE,
                      [i \in 1..Len(xs) |-> [k |-> PyInt(i - 1), v |-> xs[i]]])

is_scalar(x) == x.t \in {"str", "int", "float", "bool", "NoneType"}

is_container(x) == x.t \in {"dict", "list"}

\* str(x) of a scalar
str(x) ==
    CASE x.t = "str"      -> x.s
      [] x.t = "int"      -> IntStr(x.n)
      [] x.t = "bool"     -> IF x.n = 1 THEN <<"T", "r", "u", "e">>
                                        ELSE <<"F", "a", "l", "s", "e">>
      [] x.t = "NoneType" -> <<"N", "o", "n", "e">>
      [] x.t = "float"    -> IF x.nan THEN <<"n", "a", "n">>
                                      ELSE IntStr(x.n) \o <<".", "0">>

\* repr(x) of a scalar: a str in quotes, anything else as str(x)
repr(x) == IF x.t = "str" THEN <<"'">> \o x.s \o <<"'">> ELSE str(x)

-----------------------------------------------------------------------------
(* The pasted texts.  A text is blank (nothing but pad whitespace           *)
(* characters), malformed (the YAML parser rejects it) or the YAML of a     *)
(* document doc.                                                            *)

BlankText(p)  == [src |-> "blank", pad |-> p, doc |-> PyNone]
MalformedText == [src |-> "malformed", pad |-> 0, doc |-> PyNone]
YamlText(d)   == [src |-> "yaml", pad |-> 0, doc |-> d]

strip_is_empty_unstripped(text) == text.src = "blank" /\ text.pad = 0

\* `not text.strip()`: nothing is left of a blank text, whatever its padding
strip_is_empty(text) == text.src = "blank"

\* yaml.safe_load(text): raises on a malformed text, else the parsed document
safe_load(text) == [raised |-> text.src = "malformed", data |-> text.doc]

\* what a function call ends with: the exception it raised ("" for none), its
\* return value, and the number of safe_load calls it made
Returned(v, n)   == [exc |-> "", value |-> v, loads |-> n]
Raised(e, n)     == [exc |-> e, value |-> <<>>, loads |-> n]

-----------------------------------------------------------------------------
(* yaml_keys_from_text *)

\* line 55: the path of a mapping key
KeysDictPath(prefix, k) ==
    IF prefix # <<>> THEN prefix \o <<".">> \o str(k) ELSE str(k)

\* line 60: the path of a sequence index
KeysListPath(prefix, i) ==
    IF prefix # <<>> THEN prefix \o <<"[">> \o IntStr(i) \o <<"]">>
    ELSE <<"[">> \o IntStr(i) \o <<"]">>

RECURSIVE keys_walk(_, _)
\* walk(node, prefix) of yaml_keys_from_text: the paths it adds to `keys`
keys_walk(node, prefix) ==
    IF node.t = "dict" THEN
        UNION { LET key_path == KeysDictPath(prefix, node.kids[i].k)
                IN  {key_path} \cup keys_walk(node.kids[i].v, key_path)
                : i \in 1..Len(node.kids) }
    ELSE IF node.t = "list" THEN
        UNION { LET key_path == KeysListPath(prefix, node.kids[i].k.n)
                IN  {key_path} \cup keys_walk(node.kids[i].v, key_path)
                : i \in 1..Len(node.kids) }
    ELSE {}

yaml_keys_from_text(text) ==
    IF ~yaml_installed THEN Raised("RuntimeError", 0)
    ELSE IF strip_is_empty(text) THEN Raised("ValueError: Empty YAML content.", 0)
    ELSE IF safe_load(text).raised THEN Raised("ValueError: Invalid YAML", 1)
    ELSE Returned(keys_walk(safe_load(text).data, <<>>), 1)

-----------------------------------------------------------------------------
(* yaml_items_from_text *)

\* items[p] = v on a dict: the later assignment to a key replaces the earlier
SetItem(items, p, v) == (p :> v) @@ items

\* line 87
ItemsDictPath(prefix, k) ==
    IF prefix # <<>> THEN prefix \o <<".">> \o str(k) ELSE str(k)

\* line 91
ItemsListPath(prefix, i) ==
    IF prefix # <<>> THEN prefix \o <<"[">> \o IntStr(i) \o <<"]">>
    ELSE <<"[">> \o IntStr(i) \o <<"]">>

RECURSIVE items_walk(_, _, _)
RECURSIVE items_walk_kids(_, _, _, _)

\* walk(node, prefix) of yaml_items_from_text, as the dict `items` it leaves
items_walk(node, prefix, items) ==
    LET recorded == IF prefix # <<>> THEN SetItem(items, prefix, node) ELSE items
    IN  IF is_container(node) THEN items_walk_kids(node, prefix, 1, recorded)
        ELSE recorded

\* the loop of walk over a container's entries, from entry i on
items_walk_kids(node, prefix, i, items) ==
    IF i > Len(node.kids) THEN items
    ELSE LET key_path == IF node.t = "dict"
                         THEN ItemsDictPath(prefix, node.kids[i].k)
                         ELSE ItemsListPath(prefix, node.kids[i].k.n)
         IN  items_walk_kids(node, prefix, i + 1,
                             items_walk(node.kids[i].v, key_path, items))

RootPath == <<"<", "r", "o", "o", "t", ">">>

yaml_items_from_text(text) ==
    IF ~yaml_installed THEN Raised("RuntimeError", 0)
    ELSE IF strip_is_empty(text) THEN Raised("ValueError: Empty YAML content.", 0)
    ELSE IF safe_load(text).raised THEN Raised("ValueError: Invalid YAML", 1)
    ELSE LET data == safe_load(text).data
         IN  IF ~is_container(data) THEN Returned(SetItem(<<>>, RootPath, data), 1)
             ELSE Returned(items_walk(data, <<>>, <<>>), 1)

-----------------------------------------------------------------------------
(* fmt_value *)

IsSpace(c) == c \in {" ", "\n"}

RECURSIVE split_from(_, _, _)
\* s.split(): the maximal runs of non-whitespace characters of s, read from
\* position i on with the run `cur` in progress
split_from(s, i, cur) ==
    IF i > Len(s) THEN (IF cur = <<>> THEN <<>> ELSE <<cur>>)
    ELSE IF IsSpace(s[i])
         THEN (IF cur = <<>> THEN <<>> ELSE <<cur>>) \o split_from(s, i + 1, <<>>)
         ELSE split_from(s, i + 1, Append(cur, s[i]))

RECURSIVE join(_, _)
\* sep.join(parts)
join(sep, parts) ==
    IF parts = <<>> THEN <<>>
    ELSE IF Len(parts) = 1 THEN parts[1]
    ELSE parts[1] \o sep \o join(sep, Tail(parts))

\* " ".join(s.split())
_one_line(s) == join(<<" ">>, split_from(s, 1, <<>>))

IsDigits(s) == s # <<>> /\ \A i \in 1..Len(s) : s[i] \in {DigitChars[d] : d \in 1..10}

\* how the YAML emitter writes a scalar: null, true/false, a number, .nan, and
\* a str plain unless it is empty or would read back as a number
YamlScalar(x) ==
    CASE x.t = "NoneType" -> <<"n", "u", "l", "l">>
      [] x.t = "bool"     -> IF x.n = 1 THEN <<"t", "r", "u", "e">>
                                        ELSE <<"f", "a", "l", "s", "e">>
      [] x.t = "int"      -> IntStr(x.n)
      [] x.t = "float"    -> IF x.nan THEN <<".", "n", "a", "n">>
                                      ELSE IntStr(x.n) \o <<".", "0">>
      [] x.t = "str"      -> IF x.s = <<>> \/ IsDigits(x.s)
                             THEN <<"'">> \o x.s \o <<"'">> ELSE x.s
      [] OTHER            -> IF x.t = "dict" THEN <<"{", "}">> ELSE <<"[", "]">>

\* k1 < k2 as Python orders two dict keys; FALSE where it raises TypeError
KeyLess(k1, k2) ==
    IF k1.t = "str" /\ k2.t = "str" THEN StrLess(k1.s, k2.s)
    ELSE IF k1.t \in {"bool", "int"} /\ k2.t \in {"bool", "int"} THEN k1.n < k2.n
    ELSE FALSE

KeysComparable(kids) ==
    \/ \A i \in 1..Len(kids) : kids[i].k.t = "str"
    \/ \A i \in 1..Len(kids) : kids[i].k.t \in {"bool", "int"}

RECURSIVE sorted_entries(_)
sorted_entries(S) ==
    IF S = {} THEN <<>>
    ELSE LET m == CHOOSE x \in S : \A y \in S \ {x} : KeyLess(x.k, y.k)
         IN  <<m>> \o sorted_entries(S \ {m})

\* sort_keys=True: the entries sorted by key, or left in insertion order when
\* the keys do not compare (the emitter swallows the TypeError)
dump_order(node) ==
    IF node.t = "dict" /\ KeysComparable(node.kids)
    THEN sorted_entries({node.kids[i] : i \in 1..Len(node.kids)})
    ELSE node.kids

Spaces(n) == [i \in 1..n |-> " "]

RECURSIVE dump_lines(_, _)
RECURSIVE dump_entries(_, _, _, _)

\* the lines of a non-empty container in block style (default_flow_style=False)
dump_lines(node, indent) == dump_entries(node.t, dump_order(node), 1, indent)

dump_entries(t, kids, i, indent) ==
    IF i > Len(kids) THEN <<>>
    ELSE
      LET v     == kids[i].v
          lead  == IF t = "dict" THEN Spaces(indent) \o YamlScalar(kids[i].k) \o <<":">>
                                 ELSE Spaces(indent) \o <<"-">>
          block == is_container(v) /\ v.kids # <<>>
          nested == IF v.t = "list" /\ t = "dict" THEN dump_lines(v, indent)
                    ELSE dump_lines(v, indent + 2)
          here  == IF ~block THEN << lead \o <<" ">> \o YamlScalar(v) >>
                   ELSE IF t = "dict" THEN <<lead>> \o nested
                   ELSE << lead \o <<" ">>
                           \o SubSeq(nested[1], indent + 3, Len(nested[1])) >>
                        \o Tail(nested)
      IN  here \o dump_entries(t, kids, i + 1, indent)

\* yaml.safe_dump(v, sort_keys=True, default_flow_style=False).rstrip()
safe_dump_rstrip(v) ==
    IF v.kids = <<>> THEN YamlScalar(v)
    ELSE join(<<"\n">>, dump_lines(v, 0))

\* s[:e]
SliceTo(s, e) ==
    IF e >= 0 THEN SubSeq(s, 1, IF e < Len(s) THEN e ELSE Len(s))
    ELSE SubSeq(s, 1, IF Len(s) + e > 0 THEN Len(s) + e ELSE 0)

\* the default of fmt_value's max_len
DefaultMaxLen == 180

fmt_value_cut_to_max_len_plus_ellipsis(v, max_len) ==
    LET s == _one_line(IF is_scalar(v) THEN repr(v) ELSE safe_dump_rstrip(v))
    IN  IF Len(s) > max_len THEN SliceTo(s, max_len) \o <<Ellipsis>> ELSE s

\* fmt_value(v, max_len), lines 118-128
fmt_value(v, max_len) ==
    LET s == _one_line(IF is_scalar(v) THEN repr(v) ELSE safe_dump_rstrip(v))
    IN  IF Len(s) > max_len THEN SliceTo(s, max_len - 1) \o <<Ellipsis>> ELSE s

-----------------------------------------------------------------------------
(* a_val == b_val *)

IsNumber(x) == x.t \in {"bool", "int", "float"}

RECURSIVE PyEq(_, _)
\* a == b in Python: numbers compare by value whatever their type (True == 1,
\* 1 == 1.0) and NaN equals nothing, itself included; a str equals a str with
\* the same characters; None equals None; containers compare entry by entry
PyEq(a, b) ==
    IF IsNumber(a) /\ IsNumber(b) THEN ~a.nan /\ ~b.nan /\ a.n = b.n
    ELSE IF a.t = "str" /\ b.t = "str" THEN a.s = b.s
    ELSE IF a.t = "NoneType" /\ b.t = "NoneType" THEN TRUE
    ELSE IF a.t = "list" /\ b.t = "list" THEN
        /\ Len(a.kids) = Len(b.kids)
        /\ \A i \in 1..Len(a.kids) : PyEq(a.kids[i].v, b.kids[i].v)
    ELSE IF a.t = "dict" /\ b.t = "dict" THEN
        /\ Len(a.kids) = Len(b.kids)
        /\ \A i \in 1..Len(a.kids) : \E j \in 1..Len(b.kids) :
               PyEq(a.kids[i].k, b.kids[j].k) /\ PyEq(a.kids[i].v, b.kids[j].v)
    ELSE FALSE

-----------------------------------------------------------------------------
(* ConfigComparator *)

GREEN  == "GREEN"
RED    == "RED"
ORANGE == "ORANGE"

\* a QListWidgetItem: its text and background; key is the path it was made for
Item(text, color, key) == [text |-> text, color |-> color, key |-> key]

NoDialog == [icon |-> "none", text |-> <<>>]
NoStatus == [shown |-> FALSE, values |-> FALSE, both |-> 0, diffs |-> 0,
             only_a |-> 0, only_b |-> 0]

\* before any compare, and after an operation other than compare
NoTrace == [op |-> "", loads |-> 0, compare_values |-> FALSE,
            left_keys |-> {}, right_keys |-> {},
            left_items |-> <<>>, right_items |-> <<>>,
            both |-> {}, only_left |-> {}, only_right |-> {}, mismatched |-> 0]

Missing == PyStr(<<"<", "m", "i", "s", "s", "i", "n", "g", ">">>)

\* d.get(key, "<missing>")
Get(d, key) == IF key \in DOMAIN d THEN d[key] ELSE Missing

MissingInB == <<" ", " ", "(", "m", "i", "s", "s", "i", "n", "g", " ", "i", "n", " ", "B", ")">>
MissingInA == <<" ", " ", "(", "m", "i", "s", "s", "i", "n", "g", " ", "i", "n", " ", "A", ")">>

\* lines 291-292: the label of a path whose values differ
DiffLine(key, first, first_val, second, second_val) ==
    key \o <<" ", " ", "(", first, "=">> \o fmt_value(first_val, DefaultMaxLen)
        \o <<",", " ", second, "=">> \o fmt_value(second_val, DefaultMaxLen) \o <<")">>

ValuesMatch_deep(a_val, b_val) == PyEq(a_val, b_val)

\* lines 281-286: whether a common path is rendered green in value mode
ValuesMatch(a_val, b_val) ==
    (is_container(a_val) /\ is_container(b_val)) \/ PyEq(a_val, b_val)

\* lines 276-298: the items `for key in sorted(both)` adds to one list
CommonItems(both, compare_values, left_items, right_items, side) ==
    LET keys == sorted(both)
    IN  [i \in 1..Len(keys) |->
           LET key   == keys[i]
               a_val == Get(left_items, key)
               b_val == Get(right_items, key)
           IN  IF ~compare_values \/ ValuesMatch(a_val, b_val)
               THEN Item(key, GREEN, key)
               ELSE IF side = "A"
                    THEN Item(DiffLine(key, "A", a_val, "B", b_val), ORANGE, key)
                    ELSE Item(DiffLine(key, "B", b_val, "A", a_val), ORANGE, key)]

\* lines 300-303: the items of the paths only one side has
OnlyItems(only, suffix) ==
    LET keys == sorted(only)
    IN  [i \in 1..Len(keys) |-> Item(keys[i] \o suffix, RED, keys[i])]

\* what compare leaves in left_list: the common paths, then those only A has
RenderLeft(both, only_left, compare_values, left_items, right_items) ==
    CommonItems(both, compare_values, left_items, right_items, "A")
        \o OnlyItems(only_left, MissingInB)

\* what compare leaves in right_list: the common paths, then those only B has
RenderRight(both, only_right, compare_values, left_items, right_items) ==
    CommonItems(both, compare_values, left_items, right_items, "B")
        \o OnlyItems(only_right, MissingInA)

\* line 290: the paths counted in `mismatched`
Mismatched(both, left_items, right_items) ==
    { key \in both : ~ValuesMatch(Get(left_items, key), Get(right_items, key)) }

OnlyLeft_all_left(left_keys, right_keys) == left_keys

\* lines 262-264
Both(left_keys, right_keys) == left_keys \cap right_keys
OnlyLeft(left_keys, right_keys) == left_keys \ right_keys
OnlyRight(left_keys, right_keys) == right_keys \ left_keys

\* lines 249-260: the calls of the try block, in order, up to the first that
\* raises; loads counts the safe_load calls made
TryBlock ==
    LET lk == yaml_keys_from_text(left_text)
        rk == yaml_keys_from_text(right_text)
        li == yaml_items_from_text(left_text)
        ri == yaml_items_from_text(right_text)
        ok(left_items, right_items, n) ==
            [exc |-> "", loads |-> n, left_keys |-> lk.value, right_keys |-> rk.value,
             left_items |-> left_items, right_items |-> right_items]
        failed(e, n) ==
            [exc |-> e, loads |-> n, left_keys |-> {}, right_keys |-> {},
             left_items |-> <<>>, right_items |-> <<>>]
    IN  IF lk.exc # "" THEN failed(lk.exc, lk.loads)
        ELSE IF rk.exc # "" THEN failed(rk.exc, lk.loads + rk.loads)
        ELSE IF ~values_checkbox THEN ok(<<>>, <<>>, lk.loads + rk.loads)
        ELSE IF li.exc # "" THEN failed(li.exc, lk.loads + rk.loads + li.loads)
        ELSE IF ri.exc # "" THEN failed(ri.exc, lk.loads + rk.loads + li.loads + ri.loads)
        ELSE ok(li.value, ri.value, lk.loads + rk.loads + li.loads + ri.loads)

-----------------------------------------------------------------------------
(* The handlers *)

\* compare, lines 242-314
Compare ==
    IF strip_is_empty(left_text) \/ strip_is_empty(right_text) THEN
        /\ dialog' = [icon |-> "warning", text |-> <<"Paste YAML on both sides.">>]
        /\ trace' = [NoTrace EXCEPT !.op = "compare"]
        /\ UNCHANGED <<left_text, right_text, values_checkbox, left_list,
                       right_list, status, yaml_installed, fmt>>
    ELSE
        LET try == TryBlock IN
        IF try.exc # "" THEN
            /\ dialog' = [icon |-> "critical", text |-> <<"Parse error: ", try.exc>>]
            /\ trace' = [NoTrace EXCEPT !.op = "compare", !.loads = try.loads]
            /\ UNCHANGED <<left_text, right_text, values_checkbox, left_list,
                           right_list, status, yaml_installed, fmt>>
        ELSE
            LET both       == Both(try.left_keys, try.right_keys)
                only_left  == OnlyLeft(try.left_keys, try.right_keys)
                only_right == OnlyRight(try.left_keys, try.right_keys)
                mismatched == IF values_checkbox
                              THEN Cardinality(Mismatched(both, try.left_items,
                                                          try.right_items))
                              ELSE 0
            IN  /\ left_list' = RenderLeft(both, only_left, values_checkbox,
                                           try.left_items, try.right_items)
                /\ right_list' = RenderRight(both, only_right, values_checkbox,
                                             try.left_items, try.right_items)
                /\ status' = [shown |-> TRUE, values |-> values_checkbox,
                              both |-> Cardinality(both), diffs |-> mismatched,
                              only_a |-> Cardinality(only_left),
                              only_b |-> Cardinality(only_right)]
                /\ dialog' = NoDialog
                /\ trace' = [op |-> "compare", loads |-> try.loads,
                             compare_values |-> values_checkbox,
                             left_keys |-> try.left_keys,
                             right_keys |-> try.right_keys,
                             left_items |-> try.left_items,
                             right_items |-> try.right_items,
                             both |-> both, only_left |-> only_left,
                             only_right |-> only_right, mismatched |-> mismatched]
                /\ UNCHANGED <<left_text, right_text, values_checkbox,
                               yaml_installed, fmt>>

\* clear, lines 235-240
Clear ==
    /\ left_text' = BlankText(0)
    /\ right_text' = BlankText(0)
    /\ left_list' = <<>>
    /\ right_list' = <<>>
    /\ status' = NoStatus
    /\ dialog' = NoDialog
    /\ trace' = [NoTrace EXCEPT !.op = "clear"]
    /\ UNCHANGED <<values_checkbox, yaml_installed, fmt>>

\* the user replaces the text of config A (self.left_text, a QPlainTextEdit)
SetLeftText(t) ==
    /\ left_text # t
    /\ left_text' = t
    /\ dialog' = NoDialog
    /\ trace' = NoTrace
    /\ UNCHANGED <<right_text, values_checkbox, left_list, right_list, status,
                   yaml_installed, fmt>>

\* the user replaces the text of config B (self.right_text)
SetRightText(t) ==
    /\ right_text # t
    /\ right_text' = t
    /\ dialog' = NoDialog
    /\ trace' = NoTrace
    /\ UNCHANGED <<left_text, values_checkbox, left_list, right_list, status,
                   yaml_installed, fmt>>

\* the user ticks or unticks "Compare values" (self.values_checkbox)
ToggleValues ==
    /\ values_checkbox' = ~values_checkbox
    /\ dialog' = NoDialog
    /\ trace' = NoTrace
    /\ UNCHANGED <<left_text, right_text, left_list, right_list, status,
                   yaml_installed, fmt>>

\* showMessage(..., 7000): the status bar drops the message after 7 seconds
StatusTimeout ==
    /\ status.shown
    /\ status' = NoStatus
    /\ UNCHANGED <<left_text, right_text, values_checkbox, left_list, right_list,
                   dialog, trace, yaml_installed, fmt>>

NoFmt == [called |-> FALSE, v |-> PyNone, max_len |-> 0, exc |-> "", out |-> <<>>]

\* a call fmt_value(v, max_len) with the arguments fmt holds, lines 116-128
FmtCall ==
    /\ ~fmt.called
    /\ fmt' = IF ~yaml_installed
              THEN [fmt EXCEPT !.called = TRUE, !.exc = "RuntimeError"]
              ELSE [fmt EXCEPT !.called = TRUE,
                               !.out = fmt_value(fmt.v, fmt.max_len)]
    /\ UNCHANGED <<left_text, right_text, values_checkbox, left_list, right_list,
                   status, dialog, trace, yaml_installed>>

-----------------------------------------------------------------------------
(* The documents and texts the model draws from *)

KeyEmpty == PyStr(<<>>)
KeyA     == PyStr(<<"a">>)
KeyB     == PyStr(<<"b">>)
KeyAB    == PyStr(<<"a", ".", "b">>)

Scalars ==
    {PyNone, PyBool(TRUE), PyNaN}
        \cup {PyInt(i) : i \in 1..MaxInt} \cup {PyStr(IntStr(i)) : i \in 1..MaxInt}

\* the values one level down: scalars, empty and one-entry containers
Inner ==
    Scalars \cup {PyDict(<<>>), PyList(<<>>),
                  PyDict(<< <<KeyB, PyInt(1)>> >>), PyList(<<PyInt(1)>>)}

\* {k: v}
Map1Docs == { PyDict(<< <<k, v>> >>) : k \in {KeyEmpty, KeyA, KeyAB}, v \in Inner }

Entries ==
    { <<KeyA, PyDict(<< <<KeyB, PyInt(1)>> >>)>>, <<KeyA, PyInt(1)>>,
      <<KeyAB, PyInt(1)>>, <<KeyAB, PyStr(<<"1">>)>>, <<KeyB, PyInt(1)>>,
      <<KeyEmpty, PyDict(<< <<KeyA, PyStr(<<"1">>)>> >>)>> }

\* {k1: v1, k2: v2}, the keys distinct, in either order
Map2Docs ==
    { PyDict(<<p[1], p[2]>>) : p \in { q \in Entries \X Entries : q[1][1] # q[2][1] } }

\* [1, 1, ..., 1] of every length up to MaxSeqLen
SeqDocs == { PyList([i \in 1..n |-> PyInt(1)]) : n \in 0..MaxSeqLen }

Docs == Scalars \cup Map1Docs \cup Map2Docs \cup SeqDocs

Blanks == { BlankText(p) : p \in 0..MaxPad }

Texts == Blanks \cup {MalformedText} \cup { YamlText(d) : d \in Docs }

\* the texts the user types in the window's specification
UiDocs ==
    { PyDict(<< <<KeyA, PyInt(i)>> >>) : i \in 1..MaxInt }
        \cup { PyDict(<< <<KeyB, PyInt(1)>>, <<KeyA, PyStr(<<"1">>)>> >>),
               PyList(<<PyInt(1)>>) }

UiTexts == Blanks \cup {MalformedText} \cup { YamlText(d) : d \in UiDocs }

FmtValues == Docs \cup {Missing, PyStr(<<"a", " ", " ", "b">>), PyInt(120)}

FmtLens == (-1..MaxFmtLen) \cup {DefaultMaxLen}

-----------------------------------------------------------------------------
(* Specifications *)

\* the window after construction: both texts and both lists empty
Init ==
    /\ left_text = BlankText(0)
    /\ right_text = BlankText(0)
    /\ values_checkbox = FALSE
    /\ left_list = <<>>
    /\ right_list = <<>>
    /\ status = NoStatus
    /\ dialog = NoDialog
    /\ trace = NoTrace
    /\ yaml_installed \in BOOLEAN
    /\ fmt = NoFmt

Next ==
    \/ \E t \in UiTexts : SetLeftText(t)
    \/ \E t \in UiTexts : SetRightText(t)
    \/ ToggleValues
    \/ Compare
    \/ Clear
    \/ StatusTimeout

\* the window in use
Spec == Init /\ [][Next]_vars

\* a window holding any two texts, with the checkbox either way
InitCompare ==
    /\ left_text \in Texts
    /\ right_text \in Texts
    /\ values_checkbox \in BOOLEAN
    /\ left_list = <<>>
    /\ right_list = <<>>
    /\ status = NoStatus
    /\ dialog = NoDialog
    /\ trace = NoTrace
    /\ yaml_installed \in BOOLEAN
    /\ fmt = NoFmt

NextCompare ==
    \/ Compare
    \/ Clear

\* one compare of any two texts
SpecCompare == InitCompare /\ [][NextCompare]_vars

\* a pending call of fmt_value on any value with any max_len
InitFmt ==
    /\ left_text = BlankText(0)
    /\ right_text = BlankText(0)
    /\ values_checkbox = FALSE
    /\ left_list = <<>>
    /\ right_list = <<>>
    /\ status = NoStatus
    /\ dialog = NoDialog
    /\ trace = NoTrace
    /\ yaml_installed \in BOOLEAN
    /\ fmt \in { [NoFmt EXCEPT !.v = v, !.max_len = m] : v \in FmtValues, m \in FmtLens }

NextFmt == FmtCall

\* one call of fmt_value
SpecFmt == InitFmt /\ [][NextFmt]_vars

-----------------------------------------------------------------------------
(* Properties *)

\* the last operation was a compare that ran to its end
Compared == trace.op = "compare" /\ dialog.icon = "none"

\* the item a list shows for a path
ItemOf(list, key) == list[CHOOSE i \in 1..Len(list) : list[i].key = key]

IsContainerValue(x) == x.t \in {"dict", "list"}

RECURSIVE EdgeSeq(_, _)
RECURSIVE EdgeSeqFrom(_, _, _)
\* the path of every mapping-key and sequence-index edge below node, one
\* element per edge: `key` or `[index]` at the root, else `prefix.key` or
\* `prefix[index]`
EdgeSeq(node, prefix) ==
    IF IsContainerValue(node) THEN EdgeSeqFrom(node, prefix, 1) ELSE <<>>

EdgeSeqFrom(node, prefix, i) ==
    IF i > Len(node.kids) THEN <<>>
    ELSE LET label == IF node.t = "dict" THEN str(node.kids[i].k)
                      ELSE <<"[">> \o IntStr(node.kids[i].k.n) \o <<"]">>
             child == IF prefix = <<>> THEN label
                      ELSE IF node.t = "dict" THEN prefix \o <<".">> \o label
                      ELSE prefix \o label
         IN  <<child>> \o EdgeSeq(node.kids[i].v, child)
                       \o EdgeSeqFrom(node, prefix, i + 1)

\* C1: flatten yields exactly one path per edge of the document: the set is
\* the set of the edges' paths, and no two edges share a path, so the set has
\* as many elements as the document has edges.
C1_OnePathPerEdge ==
    Compared =>
        LET edges == EdgeSeq(left_text.doc, <<>>)
        IN  /\ trace.left_keys = { edges[i] : i \in 1..Len(edges) }
            /\ Cardinality(trace.left_keys) = Len(edges)

\* C2: common, onlyLeft and onlyRight partition the two path sets: common and
\* onlyLeft make up leftPaths, common and onlyRight make up rightPaths, and
\* the three are pairwise disjoint.
C2_Partition ==
    Compared =>
        /\ trace.both \cup trace.only_left = trace.left_keys
        /\ trace.both \cup trace.only_right = trace.right_keys
        /\ trace.both \cap trace.only_left = {}
        /\ trace.both \cap trace.only_right = {}
        /\ trace.only_left \cap trace.only_right = {}

C2_Witness ==
    /\ Compared
    /\ trace.both # {} /\ trace.only_left # {} /\ trace.only_right # {}

\* C3: value mode is reflexive: comparing a document with itself counts no
\* differing path and renders no path as value-differs.
C3_Reflexive ==
    (Compared /\ trace.compare_values /\ left_text = right_text) =>
        /\ trace.mismatched = 0
        /\ \A i \in 1..Len(left_list) : left_list[i].color # ORANGE
        /\ \A i \in 1..Len(right_list) : right_list[i].color # ORANGE

C5_FailedCompareKeepsResults ==
    [][ (trace'.op = "compare"
         /\ (left_text'.src # "yaml" \/ right_text'.src # "yaml"))
        => /\ left_list' = left_list
           /\ right_list' = right_list
           /\ IF left_text'.src = "blank" \/ right_text'.src = "blank"
              THEN dialog'.icon = "warning" /\ trace'.loads = 0
              ELSE dialog'.icon = "critical" ]_vars

\* earlier results on display, then a compare of a blank text against a
\* malformed one
C5_Witness ==
    /\ trace.op = "compare" /\ dialog.icon = "warning"
    /\ left_text.src = "blank" /\ left_text.pad > 0
    /\ right_text.src = "malformed"
    /\ left_list # <<>> /\ right_list # <<>>
    /\ yaml_installed

Ascending(list) ==
    \A i, j \in 1..Len(list) : i < j => StrLess(list[i].key, list[j].key)

\* C6 as claimed: each rendered list is in ascending order of the raw path
\* string from its first entry to its last.
C6_ListAscending ==
    Compared => Ascending(left_list) /\ Ascending(right_list)

GroupedAscending(list) ==
    \A i, j \in 1..Len(list) :
        i < j => /\ list[i].color = RED => list[j].color = RED
                 /\ (list[i].color = RED) = (list[j].color = RED)
                        => StrLess(list[i].key, list[j].key)

\* C6 amended: each rendered list shows the common paths first and the paths
\* only its side has after them, each of the two groups in ascending order of
\* the raw path string.
C6_GroupsAscending ==
    Compared => GroupedAscending(left_list) /\ GroupedAscending(right_list)

\* [2] among the common paths, then [10] before [3] among those only A has
C6_Witness ==
    /\ Compared
    /\ \E i, j, k \in 1..Len(left_list) :
          /\ i < j /\ j < k
          /\ left_list[i].key = <<"[", "2", "]">> /\ left_list[i].color = GREEN
          /\ left_list[j].key = <<"[", "1", "0", "]">> /\ left_list[j].color = RED
          /\ left_list[k].key = <<"[", "3", "]">> /\ left_list[k].color = RED

\* the one-line text fmt_value cuts
OneLineText(v) == _one_line(IF v.t \in {"dict", "list"} THEN safe_dump_rstrip(v) ELSE repr(v))

Truncated(text, max_len, out) ==
    /\ Len(out) <= max_len
    /\ Len(text) > max_len => out = SubSeq(text, 1, max_len - 1) \o <<Ellipsis>>
    /\ Len(text) <= max_len => out = text

\* C7 as claimed: for every max_len the result is at most max_len long: the
\* first max_len - 1 characters and an ellipsis when the text is longer, the
\* text itself otherwise.
C7_LengthAnyMaxLen ==
    (fmt.called /\ fmt.exc = "") => Truncated(OneLineText(fmt.v), fmt.max_len, fmt.out)

\* C7 amended: the same for every max_len of at least 1.
C7_LengthPositiveMaxLen ==
    (fmt.called /\ fmt.exc = "" /\ fmt.max_len >= 1)
        => Truncated(OneLineText(fmt.v), fmt.max_len, fmt.out)

\* a container's text cut to max_len, the ellipsis last
C7_Witness ==
    /\ fmt.called /\ fmt.exc = "" /\ fmt.max_len > 1
    /\ fmt.v.t = "dict"
    /\ Len(fmt.out) = fmt.max_len
    /\ fmt.out[fmt.max_len] = Ellipsis

\* C8: in value mode both value maps hold an entry for every common path, so
\* the lookup never falls back to "<missing>".
C8_CommonPathsHaveValues ==
    (Compared /\ trace.compare_values) =>
        \A key \in trace.both :
            key \in DOMAIN trace.left_items /\ key \in DOMAIN trace.right_items

IsPlainScalar(x) == x.t \in {"NoneType", "bool", "int", "str"}

\* C9: at a common path holding scalars (null, boolean, integer, string) on
\* both sides, the path is rendered equal exactly when the two scalars have
\* the same type and the same value, and value-differs otherwise.
C9_TypeSensitiveEquality ==
    (Compared /\ trace.compare_values) =>
        \A key \in trace.both \cap (DOMAIN trace.left_items \cap DOMAIN trace.right_items) :
            LET a == trace.left_items[key]
                b == trace.right_items[key]
            IN  (IsPlainScalar(a) /\ IsPlainScalar(b)) =>
                    /\ ItemOf(left_list, key).color = (IF a = b THEN GREEN ELSE ORANGE)
                    /\ ItemOf(right_list, key).color = (IF a = b THEN GREEN ELSE ORANGE)

RECURSIVE SameTree(_, _)
\* the same root kind, the same keys and indices at every depth, the same
\* scalar at every leaf
SameTree(a, b) ==
    /\ a.t = b.t
    /\ IF a.t = "list" THEN
           /\ Len(a.kids) = Len(b.kids)
           /\ \A i \in 1..Len(a.kids) : SameTree(a.kids[i].v, b.kids[i].v)
       ELSE IF a.t = "dict" THEN
           /\ Len(a.kids) = Len(b.kids)
           /\ \A i \in 1..Len(a.kids) : \E j \in 1..Len(b.kids) :
                  a.kids[i].k = b.kids[j].k /\ SameTree(a.kids[i].v, b.kids[j].v)
       ELSE a = b

\* C10: in value mode, a result with nothing only on one side and no
\* differing path means the two documents are the same tree.
C10_NoDifferenceMeansEqual ==
    (/\ Compared /\ trace.compare_values
     /\ trace.only_left = {} /\ trace.only_right = {} /\ trace.mismatched = 0)
        => SameTree(left_text.doc, right_text.doc)

====
